---- MODULE Spec2Model ----
(***************************************************************************)
(* State-machine model of the EUMETSAT data store client:                  *)
(*   DS_Utils.get_pages / find_files_on_store  (paginated search)          *)
(*   DS_Utils.get_token / get_url_filename / download_files (downloads)    *)
(*   Datastore_Search_Download.main            (command line entry point)  *)
(* Time is counted in whole minutes.  A token is identified by the serial  *)
(* number of the token exchange that produced it.                          *)
(***************************************************************************)
EXTENDS Integers, Sequences, FiniteSets, TLC

\* ---------------------------------------------------------------- bounds
MaxLen == 2          \* longest dataset_list handed to download_files
MaxSize == 2         \* largest file_check_limit, in bytes
MaxBlock == 2        \* largest block_size, in bytes
MaxTime == 33        \* the clock stops advancing here, in minutes
MaxTotal == 3        \* largest totalResults of a search response
MaxPerPage == 2      \* largest itemsPerPage of a search response
MaxRequests == 5     \* cap on the page requests of one search
MainTotal == 2       \* largest catalog of a command line run

\* ------------------------------------------------------ program constants
RefreshMinutes == 20 \* timedelta(minutes=20)

Ids == {"a", "b"}    \* product identifiers
NoFile == -1         \* os.path.exists(f) is False
TickSteps == {10, 11}

Min(a, b) == IF a < b THEN a ELSE b

SeqsUpTo(S, n) == UNION {[1..k -> S] : k \in 0..n}

\* ------------------------------------------------------------- the state
VARIABLES
    pc,               \* position of the running call
    start_dt, end_dt, \* main: the date arguments, then the parsed instants
    args0,            \* history: the arguments as the caller passed them
    entry,            \* which function was called from outside
    error,            \* exception that ended the run, or "none"
    clock,            \* datetime.utcnow()
    disk,             \* local file system: file name -> size or NoFile
    disk0,            \* the file system when the run started
    env_key,          \* os.environ has EUM_ACCESS_KEY
    \* download_files
    dataset_list, output_dir, eum_access_key, block_size, file_check_limit,
    access_key,       \* 'Basic ' + eum_access_key
    counter, access_token, initial_time, cur_time,
    body,             \* bytes of the response body not yet iterated
    \* find_files_on_store / get_pages
    catalog,          \* the identifiers the service holds for the query
    consistent,       \* the service pages the catalog as it announced
    n_items, items_page, cur_item, si,
    found,            \* dataset_list of find_files_on_store
    \* history
    tokenExchanges,   \* number of get_token calls issued
    requests,         \* download requests issued, in order
    itemState,        \* per-item state of the download loop
    searchRequests,   \* number of search requests issued
    offsets,          \* offsets yielded by get_pages, in order
    pages             \* feature lists received for the offsets, in order

dlVars == <<dataset_list, output_dir, eum_access_key, block_size,
            file_check_limit, access_key, counter, access_token,
            initial_time, cur_time, body>>
seVars == <<catalog, consistent, n_items, items_page, cur_item, si, found>>
hiDl == <<tokenExchanges, requests, itemState>>
hiSe == <<searchRequests, offsets, pages>>
maVars == <<start_dt, end_dt, args0>>
vars == <<pc, entry, error, clock, disk, disk0, env_key, maVars, dlVars,
          seVars, hiDl, hiSe>>

\* --------------------------------------------------------------- helpers
\* get_url_filename: the (url, local file name) pair of one product id
\* A path is the sequence of the pieces that were concatenated to build it;
\* "/" is the path separator.  local_filename is local_dir + product_id +
\* '.zip', a plain string concatenation.
local_dir == output_dir
top_url == "data/download/"
get_url_filename(product_id) ==
    [download_url |-> <<top_url, "products/", product_id>>,
     local_filename |-> local_dir \o <<product_id, ".zip">>]

FileNames == {get_url_filename(i).local_filename : i \in Ids}

exists_Never(f) == FALSE
exists(f) == disk[f] # NoFile

\* the item the loop of download_files is working on (counter was
\* incremented when the item was taken from the generator)
curIdx == counter - 1
curItem == get_url_filename(dataset_list[curIdx])

\* an exception nothing catches: it ends the run
Raise_Retry(e) == /\ pc' = pc
                  /\ error' = e
Raise(e) == /\ pc' = "raised"
            /\ error' = e

\* ------------------------------------------------------- download_files
\* lines 219-224: resolve the access key
EnvValue == "envkey"   \* os.environ['EUM_ACCESS_KEY'], when it is set
KeyMissing(key, env) == key = "None" /\ ~env
ResolvedKey_EnvFirst(key, env) == IF env THEN EnvValue ELSE key
ResolvedKey(key, env) == IF key = "None" THEN EnvValue ELSE key

DKey ==
    /\ pc = "d_key"
    /\ IF KeyMissing(eum_access_key, env_key)
          THEN Raise("KeyError") /\ UNCHANGED eum_access_key
          ELSE /\ eum_access_key' = ResolvedKey(eum_access_key, env_key)
               /\ pc' = "d_token" /\ error' = error
    /\ UNCHANGED <<entry, disk0, maVars, clock, disk, env_key, dataset_list,
                   output_dir, block_size, file_check_limit, access_key,
                   counter, access_token, initial_time, cur_time, body,
                   seVars, hiDl, hiSe>>

\* lines 226-227: the initial token exchange
DToken ==
    /\ pc = "d_token"
    /\ access_key' = <<"Basic ", eum_access_key>>
    /\ tokenExchanges' = tokenExchanges + 1
    /\ \/ /\ access_token' = tokenExchanges + 1
          /\ pc' = "d_time0" /\ error' = error
       \/ /\ Raise("NetworkError")
          /\ UNCHANGED access_token
    /\ UNCHANGED <<entry, disk0, maVars, clock, disk, env_key, dataset_list, output_dir,
                   eum_access_key,
                   block_size, file_check_limit, counter, initial_time,
                   cur_time, body, seVars, requests, itemState, hiSe>>

\* line 230
DInitialTime ==
    /\ pc = "d_time0"
    /\ initial_time' = clock
    /\ pc' = "d_loop"
    /\ UNCHANGED <<entry, disk0, maVars, error, clock, disk, env_key, dataset_list, output_dir, access_key,
                   eum_access_key, block_size, file_check_limit, counter,
                   access_token, cur_time, body, seVars, hiDl, hiSe>>

\* lines 232-238: take the next item; skip it when its file exists
DNext ==
    /\ pc = "d_loop"
    /\ counter <= Len(dataset_list)
    /\ counter' = counter + 1
    /\ LET f == get_url_filename(dataset_list[counter]).local_filename IN
         IF exists(f)
            THEN /\ pc' = "d_loop"
                 /\ itemState' = [itemState EXCEPT ![counter] = "SKIPPED"]
            ELSE /\ pc' = "d_curtime"
                 /\ itemState' = [itemState EXCEPT ![counter] = "DOWNLOADING"]
    /\ UNCHANGED <<entry, disk0, maVars, error, clock, disk, env_key, dataset_list, output_dir, access_key,
                   eum_access_key, block_size, file_check_limit,
                   access_token, initial_time, cur_time, body, seVars,
                   tokenExchanges, requests, hiSe>>

\* line 232: the generator is exhausted, download_files returns
DReturn ==
    /\ pc = "d_loop"
    /\ counter > Len(dataset_list)
    /\ pc' = "done"
    /\ UNCHANGED <<entry, disk0, maVars, error, clock, disk, env_key, dlVars, seVars,
                   hiDl, hiSe>>

\* lines 239-240: read the clock and decide on a refresh
NeedsRefresh_AtWindow(cur, init) == cur >= init + RefreshMinutes
NeedsRefresh_Late(cur, init) == cur > init + RefreshMinutes + 1
NeedsRefresh(cur, init) == cur > init + RefreshMinutes

DCurTime ==
    /\ pc = "d_curtime"
    /\ cur_time' = clock
    /\ pc' = IF NeedsRefresh(clock, initial_time) THEN "d_refresh"
                                                  ELSE "d_request"
    /\ UNCHANGED <<entry, disk0, maVars, error, clock, disk, env_key, dataset_list, output_dir, access_key,
                   eum_access_key, block_size, file_check_limit, counter,
                   access_token, initial_time, body, seVars, hiDl, hiSe>>

\* lines 243-244: token refresh
\* line 244: the time recorded for the new token
RefreshedTime_Stale(cur, init) == init
RefreshedTime(cur, init) == cur

DRefresh ==
    /\ pc = "d_refresh"
    /\ tokenExchanges' = tokenExchanges + 1
    /\ \/ /\ access_token' = tokenExchanges + 1
          /\ initial_time' = RefreshedTime(cur_time, initial_time)
          /\ pc' = "d_request" /\ error' = error
       \/ /\ Raise("NetworkError")
          /\ UNCHANGED <<access_token, initial_time>>
    /\ UNCHANGED <<entry, disk0, maVars, clock, disk, env_key, dataset_list, output_dir, access_key,
                   eum_access_key,
                   block_size, file_check_limit, counter, cur_time, body,
                   seVars, requests, itemState, hiSe>>

\* sizes of the response bodies the service is taken to send: around the
\* threshold, and the empty body
BodySizes(limit) == {b \in {0, limit - 1, limit, limit + 1} : b >= 0}

\* line 246: the download request; the service answers with a body of any
\* size (an error page is a small body), or the request fails
DRequest ==
    /\ pc = "d_request"
    /\ LET req == [url |-> curItem.download_url, item |-> curIdx,
                   token |-> access_token, time |-> cur_time,
                   since |-> initial_time, exch |-> tokenExchanges] IN
         \/ /\ \E b \in BodySizes(file_check_limit) :
                 /\ body' = b
                 /\ requests' = Append(requests, req @@ [size |-> b])
            /\ pc' = "d_write" /\ error' = error
         \/ /\ Raise("NetworkError")
            /\ requests' = Append(requests, req @@ [size |-> NoFile])
            /\ UNCHANGED body
    /\ UNCHANGED <<entry, disk0, maVars, clock, disk, env_key, dataset_list, output_dir, access_key,
                   eum_access_key,
                   block_size, file_check_limit, counter, access_token,
                   initial_time, cur_time, seVars, tokenExchanges,
                   itemState, hiSe>>

\* lines 247-249: open(out_filename, 'wb') creates an empty file, then the
\* body is written in chunks of block_size bytes; the with-statement closes
\* the file on both exits.  Either every chunk arrives, or the stream
\* breaks after k chunks and the exception leaves the loop.
NChunks(size, block) == (size + block - 1) \div block
BreakPoints(size, block) == {k \in {0, 1, NChunks(size, block) - 1} :
                               0 <= k /\ k < NChunks(size, block)}
Written(size, block, k) == Min(k * block, size)

DWrite ==
    /\ pc = "d_write"
    /\ \/ /\ disk' = [disk EXCEPT ![curItem.local_filename] =
                          Written(body, block_size, NChunks(body, block_size))]
          /\ pc' = "d_check" /\ error' = error
       \/ /\ \E k \in BreakPoints(body, block_size) :
               disk' = [disk EXCEPT ![curItem.local_filename] =
                          Written(body, block_size, k)]
          /\ Raise("NetworkError")
    /\ body' = 0
    /\ UNCHANGED <<entry, disk0, maVars, clock, env_key, dataset_list, output_dir, access_key,
                   eum_access_key,
                   block_size, file_check_limit, counter, access_token,
                   initial_time, cur_time, seVars, hiDl, hiSe>>

\* lines 250-253: the size check
BadFile_OffByOne(filesize, limit) == filesize < limit - 1
BadFile(filesize, limit) == filesize < limit

\* line 253: os.remove
remove_Kept(d, f) == d
remove(d, f) == [d EXCEPT ![f] = NoFile]

\* line 253 is the last statement of the loop body: the loop goes on
AfterCheck_Break(bad) == IF bad THEN "done" ELSE "d_loop"
AfterCheck(bad) == "d_loop"

DCheck ==
    /\ pc = "d_check"
    /\ LET f == curItem.local_filename
           bad == BadFile(disk[f], file_check_limit) IN
         /\ IF bad
               THEN /\ disk' = remove(disk, f)
                    /\ itemState' = [itemState EXCEPT ![curIdx] = "REJECTED"]
               ELSE /\ disk' = disk
                    /\ itemState' = [itemState EXCEPT ![curIdx] = "VALIDATED"]
         /\ pc' = AfterCheck(bad)
    /\ UNCHANGED <<entry, disk0, maVars, error, clock, env_key, dlVars, seVars,
                   tokenExchanges, requests, hiSe>>

\* time passes; the clock is read at lines 230 and 239 only, so the time
\* elapsed since the previous reading is added right before a reading
Tick ==
    /\ pc \in {"d_time0", "d_curtime"}
    /\ \E d \in TickSteps :
         /\ clock + d <= MaxTime
         /\ clock' = clock + d
    /\ UNCHANGED <<pc, entry, disk0, maVars, error, disk, env_key, dlVars, seVars,
                   hiDl, hiSe>>

\* ------------------------------------------ get_pages, find_files_on_store
\* get_pages, line 79: the loop condition of the generator
PagesContinue_Inclusive(n, cur) == n >= cur
PagesContinue(n, cur) == n > cur

\* get_pages, line 81: the next offset
NextOffset_PlusOne(cur, per) == cur + per + 1
NextOffset(cur, per) == cur + per

\* the histories of a search keep its first MaxRequests requests: the loop
\* itself is not bounded
Record(h, x) == IF Len(h) < MaxRequests THEN Append(h, x) ELSE h
Count(n) == IF n <= MaxRequests THEN n + 1 ELSE n

\* the page a consistent service returns for offset o: the identifiers
\* o+1 .. o+per of its catalog
PageOf(cat, o, per) == SubSeq(cat, o + 1, Min(o + per, Len(cat)))

\* line 121-122: the initial request "to find size"
SFirst ==
    /\ pc = "s_first"
    /\ searchRequests' = Count(searchRequests)
    /\ \/ /\ IF consistent
                THEN /\ n_items' = Len(catalog)
                     /\ items_page' \in 1..MaxPerPage
                ELSE /\ n_items' \in 0..MaxTotal
                     /\ items_page' \in 0..MaxPerPage
          /\ pc' = "s_iter_new" /\ error' = error
       \/ /\ Raise("NetworkError")
          /\ UNCHANGED <<n_items, items_page>>
    /\ UNCHANGED <<entry, disk0, maVars, clock, disk, env_key, dlVars,
                   catalog, consistent, cur_item, si, found, hiDl, offsets,
                   pages>>

\* line 126 with get_pages lines 75-81: the for statement asks the
\* generator for the next offset.  The first call runs the generator from
\* its start (cur_item = 0); a later call resumes it after the yield
\* (cur_item += items_page).  Then the loop condition decides between a
\* yield and the end of the iteration.
SIter ==
    /\ pc \in {"s_iter_new", "s_iter"}
    /\ LET cur == IF pc = "s_iter_new" THEN 0
                                       ELSE NextOffset(cur_item, items_page) IN
         /\ cur_item' = cur
         /\ IF PagesContinue(n_items, cur)
               THEN /\ si' = cur
                    /\ offsets' = Record(offsets, cur)
                    /\ pc' = "s_request"
               ELSE /\ pc' = "s_close"
                    /\ UNCHANGED <<si, offsets>>
    /\ UNCHANGED <<entry, disk0, maVars, error, clock, disk, env_key, dlVars,
                   catalog, consistent, n_items, items_page, found, hiDl,
                   searchRequests, pages>>

\* lines 129-131: the identifiers of a page are appended in page order
Collect_Prepend(list, features) == features \o list
Collect(list, features) == list \o features

\* lines 127-132: the page request and the collection of its identifiers
SRequest ==
    /\ pc = "s_request"
    /\ searchRequests' = Count(searchRequests)
    /\ \/ /\ \E features \in (IF consistent
                                 THEN {PageOf(catalog, si, items_page)}
                                 ELSE SeqsUpTo(Ids, 1)) :
               /\ Len(found) + Len(features) <= MaxRequests
               /\ found' = Collect(found, features)
               /\ pages' = Record(pages, features)
          /\ pc' = "s_iter" /\ error' = error
       \/ /\ Raise("NetworkError")
          /\ UNCHANGED <<found, pages>>
    /\ UNCHANGED <<entry, disk0, maVars, clock, disk, env_key, dlVars,
                   catalog, consistent, n_items, items_page, cur_item, si,
                   hiDl, offsets>>

\* lines 133-138: find_files_on_store returns dataset_list
SReturn ==
    /\ pc = "s_close"
    /\ pc' = IF entry = "main" THEN "m_download" ELSE "done"
    /\ UNCHANGED <<entry, disk0, maVars, error, clock, disk, env_key, dlVars,
                   seVars, hiDl, hiSe>>

\* ------------------------------------------------- datetime.strptime
\* A date string is a sequence of one-character strings.
Digits == <<"0", "1", "2", "3", "4", "5", "6", "7", "8", "9">>
IsDigit(c) == \E n \in 1..10 : Digits[n] = c
DigitVal(c) == (CHOOSE n \in 1..10 : Digits[n] = c) - 1

\* the pattern of one directive matches the len characters of s after
\* position p (regular expressions of _strptime.TimeRE)
FieldMatches(dir, s, p, len) ==
    /\ p + len <= Len(s)
    /\ LET c1 == s[p + 1]
           c2 == IF len = 2 THEN s[p + 2] ELSE "0"
           v == IF len = 2 THEN 10 * DigitVal(c1) + DigitVal(c2)
                           ELSE DigitVal(c1) IN
         IF len = 2 /\ dir = "d" /\ c1 = " "
            THEN IsDigit(c2) /\ c2 # "0"             \* ' [1-9]'
            ELSE /\ IsDigit(c1) /\ IsDigit(c2)
                 /\ CASE dir = "m" -> IF len = 2 THEN v \in 1..12 ELSE v \in 1..9
                      [] dir = "d" -> IF len = 2 THEN v \in 1..31 ELSE v \in 1..9
                      [] dir = "H" -> IF len = 2 THEN v \in 0..23 ELSE TRUE
                      [] dir = "M" -> IF len = 2 THEN v \in 0..59 ELSE TRUE

FieldValue(s, p, len) ==
    IF len = 2 THEN (IF s[p + 1] = " " THEN 0 ELSE 10 * DigitVal(s[p + 1]))
                    + DigitVal(s[p + 2])
               ELSE DigitVal(s[p + 1])

\* where the directive number i starts when the directives before it have
\* the lengths lens[1..i-1]; %Y takes four characters
RECURSIVE StartOf(_, _)
StartOf(lens, i) == IF i = 1 THEN 4 ELSE StartOf(lens, i - 1) + lens[i - 1]

YearMatches(s) == Len(s) >= 4 /\ \A i \in 1..4 : IsDigit(s[i])

\* lens is a way the pattern of fmt matches a prefix of s
Matches(fmt, s, lens) ==
    /\ YearMatches(s)
    /\ \A i \in 1..Len(fmt) : FieldMatches(fmt[i], s, StartOf(lens, i), lens[i])

\* the matcher tries the two-character alternatives of a directive before
\* its one-character alternative and backtracks from the right: among the
\* ways to match, the first in that order is the match
RECURSIVE Rank(_, _)
Rank(lens, i) == IF i = 0 THEN 0 ELSE 2 * Rank(lens, i - 1) + (2 - lens[i])

IsLeap(y) == (y % 4 = 0 /\ y % 100 # 0) \/ y % 400 = 0
DaysIn(y, m) == IF m = 2 THEN (IF IsLeap(y) THEN 29 ELSE 28)
                ELSE IF m \in {4, 6, 9, 11} THEN 30 ELSE 31

Fmt12 == <<"m", "d", "H", "M">>      \* '%Y%m%d%H%M'
Fmt8 == <<"m", "d">>                \* '%Y%m%d'
ValueError == [error |-> "ValueError"]

\* datetime.strptime(s, fmt).replace(tzinfo=timezone.utc): the instant as a
\* record, or ValueError
Strptime(s, fmt) ==
    LET ways == {lens \in [1..Len(fmt) -> {1, 2}] : Matches(fmt, s, lens)} IN
      IF ways = {} THEN ValueError
      ELSE
        LET lens == CHOOSE l \in ways :
                       \A o \in ways : Rank(l, Len(fmt)) <= Rank(o, Len(fmt))
            end == StartOf(lens, Len(fmt) + 1)
            val(i) == FieldValue(s, StartOf(lens, i), lens[i])
            year == 1000 * DigitVal(s[1]) + 100 * DigitVal(s[2])
                    + 10 * DigitVal(s[3]) + DigitVal(s[4])
        IN IF end # Len(s) THEN ValueError          \* unconverted data remains
           ELSE IF year < 1 \/ val(2) > DaysIn(year, val(1)) THEN ValueError
           ELSE [year |-> year, month |-> val(1), day |-> val(2),
                 hour |-> IF Len(fmt) = 4 THEN val(3) ELSE 0,
                 minute |-> IF Len(fmt) = 4 THEN val(4) ELSE 0,
                 tzinfo |-> "utc"]

\* ------------------------------------------------------------------ main
\* lines 67-73 and 75-81: '%Y%m%d%H%M' first, then '%Y%m%d'
ParseArg(s) ==
    IF Strptime(s, Fmt12) # ValueError THEN Strptime(s, Fmt12)
                                       ELSE Strptime(s, Fmt8)

\* lines 67-73
MParseStart ==
    /\ pc = "m_parse_start"
    /\ IF ParseArg(start_dt) = ValueError
          THEN Raise("ValueError") /\ UNCHANGED start_dt
          ELSE /\ start_dt' = ParseArg(start_dt)
               /\ pc' = "m_parse_end" /\ error' = error
    /\ UNCHANGED <<entry, disk0, end_dt, args0, clock, disk, env_key, dlVars,
                   seVars, hiDl, hiSe>>

\* lines 75-81
MParseEnd ==
    /\ pc = "m_parse_end"
    /\ IF ParseArg(end_dt) = ValueError
          THEN Raise("ValueError") /\ UNCHANGED end_dt
          ELSE /\ end_dt' = ParseArg(end_dt)
               /\ pc' = "m_search" /\ error' = error
    /\ UNCHANGED <<entry, disk0, start_dt, args0, clock, disk, env_key, dlVars,
                   seVars, hiDl, hiSe>>

\* lines 84-97: the services, the bounding box, the call of
\* find_files_on_store
MSearch ==
    /\ pc = "m_search"
    /\ pc' = "s_first"
    /\ UNCHANGED <<entry, disk0, maVars, error, clock, disk, env_key, dlVars,
                   seVars, hiDl, hiSe>>

\* lines 100-104: download_files(datasets, ...) with the default
\* block_size and file_check_limit
DefaultBlockSize == 1024
DefaultFileCheckLimit == 100000

MDownload ==
    /\ pc = "m_download"
    /\ dataset_list' = found
    /\ block_size' = DefaultBlockSize
    /\ file_check_limit' = DefaultFileCheckLimit
    /\ itemState' = [i \in 1..Len(found) |-> "PENDING"]
    /\ pc' = "d_key"
    /\ UNCHANGED <<entry, disk0, maVars, error, clock, disk, env_key,
                   output_dir, access_key, eum_access_key, counter,
                   access_token, initial_time, cur_time, body, seVars,
                   tokenExchanges, requests, hiSe>>

\* ------------------------------------------------------------ the inputs
\* a target file is absent, empty, or as large as the largest threshold
InitDisk == /\ disk \in [FileNames -> {NoFile, 0, MaxSize}]
            /\ disk0 = disk

InitDownloadArgs ==
    /\ dataset_list \in SeqsUpTo(Ids, MaxLen)
    /\ eum_access_key = "key"
    /\ block_size \in {1, MaxBlock}
    /\ file_check_limit \in 1..MaxSize

IdleDownload ==
    /\ access_key = "unset"
    /\ counter = 1
    /\ access_token = 0
    /\ initial_time = 0
    /\ cur_time = 0
    /\ body = 0
    /\ tokenExchanges = 0
    /\ requests = <<>>

IdleSearch ==
    /\ n_items = 0
    /\ items_page = 0
    /\ cur_item = 0
    /\ si = 0
    /\ found = <<>>
    /\ searchRequests = 0
    /\ offsets = <<>>
    /\ pages = <<>>

\* a direct call of download_files
InitDownload ==
    /\ pc = "d_key"
    /\ entry = "download_files"
    /\ error = "none"
    /\ clock = 0
    /\ output_dir = <<"out", "/">>
    /\ InitDisk
    /\ env_key = FALSE
    /\ InitDownloadArgs
    /\ args0 = [eum_access_key |-> eum_access_key]
    /\ IdleDownload
    /\ itemState = [i \in 1..Len(dataset_list) |-> "PENDING"]
    /\ catalog = <<>>
    /\ consistent = TRUE
    /\ IdleSearch
    /\ start_dt = <<>>
    /\ end_dt = <<>>

\* a direct call of download_files in which the caller also chooses the
\* output directory (with or without a trailing separator) and the access
\* key (passed or not, in the environment or not)
OutputDirs == {<<"out", "/">>, <<"out">>}

InitCall ==
    /\ pc = "d_key"
    /\ entry = "download_files"
    /\ error = "none"
    /\ clock = 0
    /\ output_dir \in OutputDirs
    /\ InitDisk
    /\ env_key \in BOOLEAN
    /\ dataset_list \in SeqsUpTo(Ids, MaxLen)
    /\ eum_access_key \in {"None", "key"}
    /\ block_size = 1
    /\ file_check_limit = MaxSize
    /\ args0 = [eum_access_key |-> eum_access_key]
    /\ IdleDownload
    /\ itemState = [i \in 1..Len(dataset_list) |-> "PENDING"]
    /\ catalog = <<>>
    /\ consistent = TRUE
    /\ IdleSearch
    /\ start_dt = <<>>
    /\ end_dt = <<>>

\* a direct call of find_files_on_store
InitSearch ==
    /\ pc = "s_first"
    /\ entry = "find_files_on_store"
    /\ error = "none"
    /\ clock = 0
    /\ output_dir = <<"out", "/">>
    /\ disk = [f \in FileNames |-> NoFile]
    /\ disk0 = disk
    /\ env_key = FALSE
    /\ dataset_list = <<>>
    /\ eum_access_key = "None"
    /\ args0 = [eum_access_key |-> eum_access_key]
    /\ block_size = DefaultBlockSize
    /\ file_check_limit = DefaultFileCheckLimit
    /\ IdleDownload
    /\ itemState = <<>>
    /\ catalog \in SeqsUpTo(Ids, MaxTotal)
    /\ consistent \in BOOLEAN
    /\ IdleSearch
    /\ start_dt = <<>>
    /\ end_dt = <<>>

\* a run of the command line: the date arguments, the --eum_access_key
\* option, the environment, the catalog of the service and the files of
\* the output directory
StartDates == {<<"2", "0", "2", "1", "0", "1", "0", "5", "1", "2", "3", "0">>,
               <<"2", "0", "2", "1", "-", "0", "1">>}
EndDates == {<<"2", "0", "2", "1", "0", "1", "0", "6">>,
             <<"2", "0", "2", "1", "0", "2", "3", "0">>}

InitMain ==
    /\ pc = "m_parse_start"
    /\ entry = "main"
    /\ error = "none"
    /\ clock = 0
    /\ output_dir = <<".", "/">>
    /\ InitDisk
    /\ env_key \in BOOLEAN
    /\ dataset_list = <<>>
    /\ eum_access_key \in {"None", "key"}
    /\ block_size = DefaultBlockSize
    /\ file_check_limit = DefaultFileCheckLimit
    /\ IdleDownload
    /\ itemState = <<>>
    /\ catalog \in SeqsUpTo(Ids, MainTotal)
    /\ consistent = TRUE
    /\ IdleSearch
    /\ start_dt \in StartDates
    /\ end_dt \in EndDates
    /\ args0 = [start_dt |-> start_dt, end_dt |-> end_dt,
                eum_access_key |-> eum_access_key]

\* the date parsing of main alone, over more date arguments
ParseDates ==
    {<<"2", "0", "2", "1", "0", "1", "0", "5">>,
     <<"2", "0", "2", "1", "1", "2", "3", "1">>,
     <<"2", "0", "2", "0", "0", "2", "2", "9">>,
     <<"2", "0", "2", "1", "0", "2", "3", "0">>,
     <<"2", "0", "2", "1", "0", "1", "0", "5", "1", "2", "3", "0">>,
     <<"2", "0", "2", "1", "1", "2", "3", "1", "2", "3", "5", "9">>,
     <<"2", "0", "2", "1", "0", "1", "0", "5", "2", "4", "6", "0">>,
     <<"2", "0", "2", "1", "0", "1", "0", "5", "1", "2">>,
     <<"2", "0", "2", "1", "1", "2", "3">>,
     <<"2", "0", "2", "1", "-", "0", "1", "-", "0", "5">>,
     <<"2", "0", "2", "1", "0", "1", "0", "5", "x">>,
     <<>>}

InitParse ==
    /\ pc = "m_parse_start"
    /\ entry = "main"
    /\ error = "none"
    /\ clock = 0
    /\ output_dir = <<".", "/">>
    /\ disk = [f \in FileNames |-> NoFile]
    /\ disk0 = disk
    /\ env_key = FALSE
    /\ dataset_list = <<>>
    /\ eum_access_key = "key"
    /\ block_size = DefaultBlockSize
    /\ file_check_limit = DefaultFileCheckLimit
    /\ IdleDownload
    /\ itemState = <<>>
    /\ catalog = <<>>
    /\ consistent = TRUE
    /\ IdleSearch
    /\ start_dt \in ParseDates
    /\ end_dt \in ParseDates
    /\ args0 = [start_dt |-> start_dt, end_dt |-> end_dt,
                eum_access_key |-> eum_access_key]

NextParse == MParseStart \/ MParseEnd

SpecParse == InitParse /\ [][NextParse]_vars

NextSearch == SFirst \/ SIter \/ SRequest \/ SReturn

NextMain ==
    \/ MParseStart \/ MParseEnd \/ MSearch \/ MDownload
    \/ NextSearch

NextDownload ==
    \/ DKey \/ DToken \/ DInitialTime \/ DNext \/ DReturn \/ DCurTime
    \/ DRefresh \/ DRequest \/ DWrite \/ DCheck \/ Tick

SpecDownload == InitDownload /\ [][NextDownload]_vars

SpecCall == InitCall /\ [][NextDownload]_vars

SpecSearch == InitSearch /\ [][NextSearch]_vars

\* the same call, under the sequential execution of the program: a step
\* that can be taken is eventually taken
SpecSearchLive == InitSearch /\ [][NextSearch]_vars /\ WF_vars(NextSearch)

Next == NextMain \/ NextDownload

Spec == InitMain /\ [][Next]_vars

\* ===================================================== download_files
FileOf(i) == get_url_filename(dataset_list[i]).local_filename
Items == DOMAIN itemState
Terminal == {"SKIPPED", "VALIDATED", "REJECTED"}
Returned == pc = "done" /\ error = "none"
\* a later item with the same target file is being downloaded
Redownloading(i) ==
    \E j \in Items : j > i /\ FileOf(j) = FileOf(i)
                              /\ itemState[j] = "DOWNLOADING"

\* C1 as stated: after a normal return every identifier of the list has a
\* local file that exists and passes the size check.
C1_AllFilesValid ==
    Returned =>
        \A i \in Items : exists(FileOf(i)) /\ disk[FileOf(i)] >= file_check_limit

\* C1 amended: after a normal return, for every identifier of the list, a
\* file that existed before the call is unchanged (whatever its size);
\* otherwise the file either exists with size >= file_check_limit or is
\* absent, and it is absent only if the identifier has a rejected download.
C1_FilesValidSkippedOrRemoved ==
    Returned =>
        \A i \in Items :
            LET f == FileOf(i) IN
              IF disk0[f] # NoFile
                 THEN disk[f] = disk0[f] /\ itemState[i] = "SKIPPED"
                 ELSE \/ exists(f) /\ disk[f] >= file_check_limit
                      \/ /\ ~exists(f)
                         /\ \E j \in Items : FileOf(j) = f
                                              /\ itemState[j] = "REJECTED"

C1_Witness ==
    /\ Returned
    /\ \E i \in Items : itemState[i] = "REJECTED" /\ ~exists(FileOf(i))
    /\ \E i \in Items : /\ itemState[i] = "SKIPPED"
                         /\ disk[FileOf(i)] < file_check_limit

\* the turn of an item whose target file exists
SkipTurn ==
    /\ pc = "d_loop"
    /\ counter <= Len(dataset_list)
    /\ disk[FileOf(counter)] # NoFile

C2_SkipStep ==
    SkipTurn => /\ requests' = requests
                /\ tokenExchanges' = tokenExchanges
                /\ disk' = disk
                /\ pc' = "d_loop"
                /\ counter' = counter + 1
                /\ itemState'[counter] = "SKIPPED"

C2_NoRequestForSkipped ==
    \A i \in Items :
        itemState[i] = "SKIPPED" =>
            \A k \in DOMAIN requests : requests[k].item # i

\* C2: an item whose target file exists when its turn comes is skipped: the
\* step issues no download request and no token exchange, leaves the whole
\* disk as it is and moves on to the next item; no request is ever logged
\* for a skipped item.
C2_SkipExisting == [][C2_SkipStep]_vars /\ []C2_NoRequestForSkipped

C2_Witness ==
    \E i \in Items :
        /\ itemState[i] = "SKIPPED"
        /\ disk[FileOf(i)] < file_check_limit
        /\ i < Len(dataset_list)
        /\ itemState[i + 1] # "PENDING"

\* C3: once the size check of an item has run, its file is on disk only
\* with size >= file_check_limit: an accepted item's file is in place, a
\* rejected item's file is gone (until a later item of the same name is
\* downloaded again).
C3_SizeCheck ==
    \A i \in Items :
        LET f == FileOf(i) IN
          /\ (itemState[i] = "VALIDATED" /\ ~Redownloading(i)) =>
                 exists(f) /\ disk[f] >= file_check_limit
          /\ (itemState[i] = "REJECTED" /\ ~Redownloading(i)) =>
                 \/ ~exists(f)
                 \/ /\ disk[f] >= file_check_limit
                    /\ \E j \in Items : /\ j > i
                                         /\ FileOf(j) = f
                                         /\ itemState[j] = "VALIDATED"

C3_Witness ==
    /\ \E i \in Items : itemState[i] = "REJECTED" /\ ~exists(FileOf(i))
    /\ \E i \in Items : /\ itemState[i] = "VALIDATED"
                         /\ disk[FileOf(i)] = file_check_limit

\* C4 as stated: two downloads of a run less than 20 minutes apart carry
\* the same token.
C4_CloseDownloadsShareToken ==
    \A i, j \in DOMAIN requests :
        (i < j /\ requests[j].time - requests[i].time < RefreshMinutes) =>
            requests[j].token = requests[i].token

\* C4 amended: two downloads of a run carry the same token, with no token
\* exchange between them, when the later one comes no more than 20 minutes
\* after the time recorded for the token of the earlier one.
C4_WithinWindowOfToken ==
    \A i, j \in DOMAIN requests :
        (i < j /\ requests[j].time <= requests[i].since + RefreshMinutes) =>
            /\ requests[j].token = requests[i].token
            /\ requests[j].exch = requests[i].exch

C4_Witness ==
    \E i, j \in DOMAIN requests :
        /\ i < j
        /\ requests[j].time = requests[i].since + RefreshMinutes
        /\ requests[j].time > requests[i].time
        /\ requests[j].token = requests[i].token

\* C5: between two consecutive downloads more than 20 minutes apart there
\* is exactly one token exchange.
C5_OneExchangeAfterWindow ==
    \A k \in DOMAIN requests :
        (k > 1 /\ requests[k].time - requests[k - 1].time > RefreshMinutes) =>
            /\ requests[k].exch = requests[k - 1].exch + 1
            /\ requests[k].token # requests[k - 1].token

C5_Witness ==
    \E k \in DOMAIN requests :
        /\ k > 1
        /\ requests[k].time - requests[k - 1].time > RefreshMinutes
        /\ requests[k].exch = requests[k - 1].exch + 1

\* C10: a rejected item does not end the batch: right after the rejection
\* the loop is at its head with no error raised, the next item (if any) can
\* be taken, and when the call returns every item after the rejected one
\* has been skipped or downloaded.
C10_RejectionContinues ==
    \A i \in Items :
        itemState[i] = "REJECTED" =>
            /\ curIdx = i => (pc \in {"d_loop", "done"} /\ error = "none")
            /\ (curIdx = i /\ pc = "d_loop" /\ i < Len(dataset_list)) =>
                   ENABLED DNext
            /\ pc = "done" =>
                   \A j \in Items : j > i => itemState[j] \in Terminal

C10_Witness ==
    /\ Returned
    /\ \E i \in Items : /\ itemState[i] = "REJECTED"
                         /\ i < Len(dataset_list)
                         /\ itemState[i + 1] \in {"VALIDATED", "REJECTED"}

\* ================================================= find_files_on_store
CeilDiv(a, b) == (a + b - 1) \div b

RECURSIVE Flatten(_)
Flatten(ss) == IF ss = <<>> THEN <<>> ELSE Head(ss) \o Flatten(Tail(ss))

\* the generator of get_pages is exhausted
PagesExhausted ==
    \/ pc = "s_close"
    \/ pc = "done" /\ entry = "find_files_on_store"
    \/ pc = "m_download"

SearchReturned ==
    \/ pc = "done" /\ entry = "find_files_on_store"
    \/ pc = "m_download"

\* C6: the offsets get_pages yields are 0, P, 2P, ... in this order, each
\* below the total T (none when T = 0), strictly increasing when P > 0; the
\* generator ends at the first multiple of P that reaches or exceeds T.
C6_Offsets ==
    /\ \A k \in DOMAIN offsets :
          /\ offsets[k] = (k - 1) * items_page
          /\ offsets[k] < n_items
          /\ (k > 1 /\ items_page > 0) => offsets[k] > offsets[k - 1]
    /\ PagesExhausted =>
          /\ cur_item = Len(offsets) * items_page
          /\ cur_item >= n_items
          /\ n_items = 0 => offsets = <<>>

C6_Witness ==
    /\ PagesExhausted
    /\ Len(offsets) >= 2
    /\ cur_item > n_items

\* C7 as stated: with page size P > 0 the search issues ceil(T/P) search
\* requests.
C7_RequestsCeil ==
    (SearchReturned /\ items_page > 0) =>
        searchRequests = CeilDiv(n_items, items_page)

\* C7 amended: with page size P > 0, a search that returns has issued the
\* initial request and one request per offset, 1 + ceil(T/P) search
\* requests in all, ceil(T/P) of them page requests.
C7_RequestsCeilPlusFirst ==
    (SearchReturned /\ items_page > 0) =>
        /\ Len(offsets) = CeilDiv(n_items, items_page)
        /\ searchRequests = 1 + CeilDiv(n_items, items_page)

C7_Witness ==
    /\ SearchReturned
    /\ items_page = 2
    /\ n_items = 3
    /\ searchRequests = 3

\* C8: the list find_files_on_store returns is the concatenation of the
\* feature lists of the pages in offset order, one page per offset; when
\* the service pages its catalog as announced, it is the whole catalog, in
\* order, nothing missing and nothing twice.
C8_AllIdentifiers ==
    SearchReturned =>
        /\ Len(pages) = Len(offsets)
        /\ found = Flatten(pages)
        /\ consistent => found = catalog

C8_Witness ==
    /\ SearchReturned
    /\ consistent
    /\ Len(pages) >= 2
    /\ Len(found) = MaxTotal
    /\ \E i, j \in DOMAIN found : found[i] # found[j]

\* ================================================================ main
\* C9: a run that ends with a configuration error (no access key) or an
\* input error (a date that does not parse) has issued no search request.
C9_ErrorsBeforeSearch ==
    (pc = "raised" /\ error \in {"KeyError", "ValueError"}) =>
        searchRequests = 0

\* ======================================================= error handling
\* a step in which a search request fails / a token exchange fails
SearchFails == pc \in {"s_first", "s_request"} /\ error' = "NetworkError"
TokenFails == pc \in {"d_token", "d_refresh"} /\ error' = "NetworkError"

C11_FailureStep ==
    /\ pc = "raised" => UNCHANGED vars
    /\ SearchFails =>
          /\ pc' = "raised"
          /\ searchRequests' = searchRequests + 1
          /\ UNCHANGED <<tokenExchanges, requests, found, itemState, disk>>
    /\ TokenFails =>
          /\ pc' = "raised"
          /\ tokenExchanges' = tokenExchanges + 1
          /\ UNCHANGED <<searchRequests, requests, access_token, itemState,
                         disk>>

\* C11: a search request or a token exchange (the initial one or a refresh)
\* that fails is issued once and not again: the step that fails counts one
\* request, raises, and leaves items, files and download requests alone;
\* once an error is raised the run is over, nothing happens after it.
C11_NoRetry ==
    [][C11_FailureStep]_vars /\ [](error # "none" => pc = "raised")

C11_Witness ==
    /\ pc = "raised"
    /\ error = "NetworkError"
    /\ tokenExchanges = 2
    /\ access_token = 1
    /\ searchRequests >= 2
    /\ Len(requests) = 1
    /\ Len(dataset_list) = 2

\* ========================================================= date parsing
\* s has the form YYYYMMDD or YYYYMMDDHHMM and names a date (and time)
AllDigits(s) == \A i \in DOMAIN s : IsDigit(s[i])
Num(s, i, n) == IF n = 2 THEN 10 * DigitVal(s[i]) + DigitVal(s[i + 1])
                ELSE 1000 * DigitVal(s[i]) + 100 * DigitVal(s[i + 1])
                     + 10 * DigitVal(s[i + 2]) + DigitVal(s[i + 3])
WrittenForm(s) ==
    /\ Len(s) \in {8, 12}
    /\ AllDigits(s)
    /\ Num(s, 1, 4) >= 1
    /\ Num(s, 5, 2) \in 1..12
    /\ Num(s, 7, 2) \in 1..DaysIn(Num(s, 1, 4), Num(s, 5, 2))
    /\ Len(s) = 12 => (Num(s, 9, 2) \in 0..23 /\ Num(s, 11, 2) \in 0..59)

\* the instant written in a string of that form
WrittenInstant(s) ==
    [year |-> Num(s, 1, 4), month |-> Num(s, 5, 2), day |-> Num(s, 7, 2),
     hour |-> IF Len(s) = 12 THEN Num(s, 9, 2) ELSE 0,
     minute |-> IF Len(s) = 12 THEN Num(s, 11, 2) ELSE 0,
     tzinfo |-> "utc"]

Expected(s) == IF WrittenForm(s) THEN WrittenInstant(s) ELSE ValueError

StartFailed == pc = "raised" /\ ParseArg(args0.start_dt) = ValueError
StartParsed == pc # "m_parse_start"
EndParsed == pc = "m_search" \/ (pc = "raised" /\ ~StartFailed)

\* C12: a date argument of the form YYYYMMDD or YYYYMMDDHHMM is parsed to
\* the UTC instant with the fields written in it (hour and minute 0 for
\* the short form); an argument of any other form ends the run with the
\* input error.
C12_ParsesAsWritten ==
    /\ StartParsed =>
          (IF StartFailed THEN ValueError ELSE start_dt)
              = Expected(args0.start_dt)
    /\ EndParsed =>
          (IF pc = "raised" THEN ValueError ELSE end_dt)
              = Expected(args0.end_dt)

\* ================================================== credential resolution
KeyPassed == args0.eum_access_key # "None"
KeyResolved == pc # "d_key" /\ error # "KeyError"

\* C13: a passed access key is used even when the environment variable is
\* set; the environment variable is used only when no key is passed; with
\* neither, the call raises the configuration error before any token
\* exchange or download request and leaves every file as it was.
C13_KeyResolution ==
    /\ KeyResolved =>
          /\ eum_access_key = (IF KeyPassed THEN args0.eum_access_key
                                            ELSE EnvValue)
          /\ tokenExchanges >= 1 => access_key = <<"Basic ", eum_access_key>>
    /\ (~KeyPassed /\ ~env_key) =>
          /\ pc \in {"d_key", "raised"}
          /\ pc = "raised" => error = "KeyError"
          /\ tokenExchanges = 0
          /\ requests = <<>>
          /\ disk = disk0
    /\ error = "KeyError" => (~KeyPassed /\ ~env_key)

C13_Witness ==
    /\ pc = "raised" /\ error = "KeyError"
    /\ ~KeyPassed /\ ~env_key
    /\ Len(dataset_list) = 2
    /\ \E f \in FileNames : disk[f] = 0

\* ================================================ files of a download run
\* the path of a file called name inside the directory dir
Join(dir, name) == IF dir[Len(dir)] = "/" THEN dir \o name
                   ELSE dir \o <<"/">> \o name
Target(i) == Join(output_dir, <<dataset_list[i], ".zip">>)
Distinct == \A i, j \in Items : dataset_list[i] = dataset_list[j] => i = j
Created == {f \in DOMAIN disk : disk0[f] = NoFile /\ disk[f] # NoFile}
Changed == {f \in DOMAIN disk : disk0[f] # disk[f]}

\* C14: a list of n distinct identifiers, none of whose files exists
\* beforehand, with every body at least file_check_limit bytes long, is
\* downloaded with exactly n requests, one per identifier in list order,
\* and creates exactly the files <identifier>.zip inside the output
\* directory and nothing else.
C14_FilesInOutputDir ==
    (/\ Returned
     /\ Distinct
     /\ \A f \in DOMAIN disk0 : disk0[f] = NoFile
     /\ \A k \in DOMAIN requests : requests[k].size >= file_check_limit)
    => /\ Len(requests) = Len(dataset_list)
       /\ \A k \in DOMAIN requests :
             /\ requests[k].item = k
             /\ requests[k].url = get_url_filename(dataset_list[k]).download_url
       /\ Created = {Target(i) : i \in Items}
       /\ Changed = Created

\* ===================================================== age of the token
\* a step of the refresh decision and of the refresh itself
C15_RefreshStep ==
    /\ pc = "d_curtime" /\ pc' # pc =>
          /\ cur_time' = clock
          /\ pc' = "d_refresh" <=> cur_time' > initial_time + RefreshMinutes
          /\ pc' = "d_request" <=> cur_time' <= initial_time + RefreshMinutes
          /\ UNCHANGED <<access_token, initial_time, tokenExchanges>>
    /\ pc = "d_refresh" /\ pc' = "d_request" =>
          /\ tokenExchanges' = tokenExchanges + 1
          /\ access_token' # access_token
          /\ initial_time' = cur_time
    /\ initial_time' # initial_time => pc \in {"d_time0", "d_refresh"}
    /\ Len(requests') > Len(requests) =>
          /\ pc = "d_request"
          /\ requests'[Len(requests')].time = cur_time
          /\ requests'[Len(requests')].since = initial_time
          /\ requests'[Len(requests')].token = access_token

\* C15: a download request is issued at most 20 minutes after the time
\* recorded for its token; the token is exchanged before the request
\* exactly when more than 20 minutes have passed since that recorded time,
\* and every exchange resets the recorded time to the time just read.
C15_TokenAge ==
    /\ [][C15_RefreshStep]_vars
    /\ [](pc = "d_request" =>
            /\ cur_time >= initial_time
            /\ cur_time <= initial_time + RefreshMinutes)
    /\ [](\A k \in DOMAIN requests :
            /\ requests[k].time >= requests[k].since
            /\ requests[k].time <= requests[k].since + RefreshMinutes
            /\ k > 1 =>
                  IF requests[k].time > requests[k - 1].since + RefreshMinutes
                     THEN /\ requests[k].exch = requests[k - 1].exch + 1
                          /\ requests[k].since = requests[k].time
                     ELSE /\ requests[k].exch = requests[k - 1].exch
                          /\ requests[k].since = requests[k - 1].since)

C15_Witness ==
    /\ Len(requests) = 2
    /\ requests[1].time = requests[1].since + RefreshMinutes
    /\ requests[1].exch = 1
    /\ requests[2].time > requests[1].since + RefreshMinutes
    /\ requests[2].exch = 2
    /\ requests[2].since = requests[2].time

\* ================================================ per-item state machine
\* what a step may do to the state of item i
C16_ItemStep(i) ==
    /\ itemState[i] = "PENDING" /\ itemState'[i] # "PENDING" =>
          /\ pc = "d_loop" /\ counter = i
          /\ itemState'[i] = IF disk[FileOf(i)] # NoFile THEN "SKIPPED"
                                                         ELSE "DOWNLOADING"
          /\ disk' = disk
    /\ itemState[i] = "DOWNLOADING" /\ itemState'[i] # "DOWNLOADING" =>
          /\ pc = "d_check" /\ curIdx = i
          /\ itemState'[i] \in {"VALIDATED", "REJECTED"}
          /\ itemState'[i] = "VALIDATED" =>
                (disk' = disk /\ disk'[FileOf(i)] # NoFile)
          /\ itemState'[i] = "REJECTED" =>
                disk' = [disk EXCEPT ![FileOf(i)] = NoFile]
    /\ itemState[i] \in Terminal => itemState'[i] = itemState[i]
    /\ itemState'[i] # itemState[i] =>
          \A j \in Items \ {i} : itemState'[j] = itemState[j]

C16_Step == DOMAIN itemState' = Items /\ \A i \in Items : C16_ItemStep(i)

\* the items are taken one at a time, in list order
C16_InOrder ==
    /\ \A i \in Items :
          itemState[i] \in {"PENDING", "DOWNLOADING"} \cup Terminal
    /\ \A i, j \in Items :
          (i < j /\ itemState[j] # "PENDING") => itemState[i] \in Terminal
    /\ \A i \in Items : i < counter <=> itemState[i] # "PENDING"
    /\ Returned => \A i \in Items : itemState[i] \in Terminal

\* C16: every item starts PENDING, becomes SKIPPED exactly when its file
\* exists at its turn and DOWNLOADING otherwise, and from DOWNLOADING
\* becomes VALIDATED with the file kept or REJECTED with the file removed;
\* items are taken one at a time in list order, a terminal state is never
\* left, and after a normal return every item is in a terminal state.
C16_ItemStateMachine == [][C16_Step]_vars /\ []C16_InOrder

C16_Witness ==
    /\ Returned
    /\ Len(dataset_list) = 2
    /\ \E i, j \in Items : /\ itemState[i] = "SKIPPED"
                            /\ itemState[j] \in {"VALIDATED", "REJECTED"}
    /\ disk # disk0

\* ================================================ end of the pagination
SearchEnded == pc \in {"done", "raised"}

\* the histories are complete unless the page size is 0
HistoriesComplete ==
    items_page > 0 => /\ Len(offsets) < MaxRequests
                      /\ Len(found) < MaxRequests
                      /\ searchRequests <= MaxRequests

\* C17: whatever total and page size the first response reports, a page
\* size of 0 with a positive total included, get_pages yields finitely
\* many offsets and find_files_on_store comes to an end.
C17_Terminates == <>SearchEnded

\* ============================================ when tokens are exchanged
\* the exchanges of a step: the one before the loop, or a refresh for the
\* item being downloaded, whose request is the next thing to happen
C18_ExchangeStep ==
    /\ tokenExchanges' # tokenExchanges =>
          /\ tokenExchanges' = tokenExchanges + 1
          /\ \/ /\ pc = "d_token" /\ tokenExchanges = 0 /\ counter = 1
                /\ pc' \in {"d_time0", "raised"}
             \/ /\ pc = "d_refresh" /\ tokenExchanges >= 1
                /\ itemState[curIdx] = "DOWNLOADING"
                /\ disk[FileOf(curIdx)] = NoFile
                /\ pc' \in {"d_request", "raised"}
    /\ pc = "d_request" =>
          /\ tokenExchanges' = tokenExchanges
          /\ Len(requests') = Len(requests) + 1
          /\ requests'[Len(requests')].item = curIdx
          /\ requests'[Len(requests')].exch = tokenExchanges
    /\ (pc = "d_loop" /\ counter <= Len(dataset_list)
           /\ disk[FileOf(counter)] # NoFile) =>
          tokenExchanges' = tokenExchanges

C18_ExchangeCount ==
    /\ pc \in {"d_key", "d_token"} => tokenExchanges = 0
    /\ (pc \in {"d_time0", "d_loop"} /\ counter = 1) => tokenExchanges = 1
    /\ (pc \notin {"d_key", "d_token", "raised"}) => tokenExchanges >= 1
    /\ (Returned /\ \A i \in Items : disk0[FileOf(i)] # NoFile) =>
          (tokenExchanges = 1 /\ requests = <<>>)
    /\ Returned =>
          \A e \in 2..tokenExchanges :
              \E k \in DOMAIN requests :
                  /\ requests[k].exch = e
                  /\ itemState[requests[k].item] # "SKIPPED"
                  /\ k > 1 => requests[k - 1].exch = e - 1

\* C18: download_files exchanges the key for a token exactly once before
\* the item loop, whatever the list holds; inside the loop an exchange
\* happens only for an item that is not skipped and is followed at once by
\* the download request of that item; the turn of a skipped item never
\* exchanges a token.
C18_TokenExchanges == [][C18_ExchangeStep]_vars /\ []C18_ExchangeCount

C18_Witness ==
    /\ Returned
    /\ Len(dataset_list) = 2
    /\ itemState[1] = "SKIPPED"
    /\ Len(requests) = 1
    /\ requests[1].item = 2
    /\ requests[1].exch = 2
    /\ tokenExchanges = 2

\* ================================================= files left by a run
Exited == pc \in {"done", "raised"}
PassedCheck(f) == \E j \in Items : FileOf(j) = f /\ itemState[j] = "VALIDATED"

\* C19: however download_files ends, also by an error while the body is
\* written to disk, every file this run created has passed the size check,
\* so that no later run skips an interrupted download as an existing file.
C19_NoUncheckedFileLeft ==
    Exited => \A f \in DOMAIN disk :
                  (disk0[f] = NoFile /\ exists(f)) => PassedCheck(f)

====
